---- MODULE Spec2Model ----
(***************************************************************************)
(* Fetch-with-fallback data loading of the App component (React client)    *)
(* against the Express data provider.                                      *)
(*                                                                         *)
(* One step of the model is one run-to-completion piece of JavaScript: a   *)
(* click with the render and effect it triggers, or the continuation of    *)
(* an async function after an await, together with the state updates it    *)
(* batches.                                                                *)
(***************************************************************************)
EXTENDS Integers, Sequences, FiniteSets, Bags, TLC

\* Largest number of loads of one resource the model starts.
MaxLoads == 2

\* The same, in the specifications that count time.
MaxTimedLoads == 1

Resources == {"greeting", "profile", "catalog"}
Tabs == {"welcome", "user", "products"}

\* useState<UserData | null>(null)
Null == [null |-> TRUE]

FALLBACK_DATA ==
  [ message  |-> "API not available in production. This is fallback data.",
    user     |-> [ id |-> 1, name |-> "John Doe", email |-> "john@example.com",
                   role |-> "Developer",
                   skills |-> <<"JavaScript", "React", "Node.js", "Express">>,
                   experience |-> 5, location |-> "San Francisco",
                   department |-> "Engineering", projects |-> 12 ],
    products |-> << [ id |-> 1, name |-> "Laptop Pro", price |-> 1299,
                      category |-> "Electronics", inStock |-> TRUE ],
                    [ id |-> 2, name |-> "Wireless Headphones", price |-> 199,
                      category |-> "Audio", inStock |-> TRUE ],
                    [ id |-> 3, name |-> "Smart Watch", price |-> 349,
                      category |-> "Wearables", inStock |-> FALSE ],
                    [ id |-> 4, name |-> "Desk Chair", price |-> 249,
                      category |-> "Furniture", inStock |-> TRUE ],
                    [ id |-> 5, name |-> "Coffee Maker", price |-> 89,
                      category |-> "Kitchen", inStock |-> TRUE ],
                    [ id |-> 6, name |-> "Fitness Tracker", price |-> 129,
                      category |-> "Wearables", inStock |-> TRUE ] >> ]

\* Bodies the data provider sends (res.json(...) of the three routes).
ApiHello == [ message |-> "Hello from Express server!" ]

ApiUser ==
  [ id |-> 1, name |-> "John Doe", email |-> "john@example.com",
    role |-> "Developer",
    skills |-> <<"JavaScript", "React", "Node.js", "Express">>,
    experience |-> 5, location |-> "San Francisco",
    department |-> "Engineering", projects |-> 12 ]

ApiProducts ==
  << [ id |-> 1, name |-> "Laptop Pro", price |-> 1299,
       category |-> "Electronics", inStock |-> TRUE ],
     [ id |-> 2, name |-> "Wireless Headphones", price |-> 199,
       category |-> "Audio", inStock |-> TRUE ],
     [ id |-> 3, name |-> "Smart Watch", price |-> 349,
       category |-> "Wearables", inStock |-> FALSE ],
     [ id |-> 4, name |-> "Desk Chair", price |-> 249,
       category |-> "Furniture", inStock |-> TRUE ],
     [ id |-> 5, name |-> "Coffee Maker", price |-> 89,
       category |-> "Kitchen", inStock |-> TRUE ],
     [ id |-> 6, name |-> "Fitness Tracker", price |-> 129,
       category |-> "Wearables", inStock |-> TRUE ] >>

\* The endpoint a resource is read from, and what the provider answers there.
Endpoint(r) ==
  CASE r = "greeting" -> "/api/hello"
    [] r = "profile"  -> "/api/user"
    [] r = "catalog"  -> "/api/products"

ProviderBody(url) ==
  CASE url = "/api/hello"    -> ApiHello
    [] url = "/api/user"     -> ApiUser
    [] url = "/api/products" -> ApiProducts

\* window.location.hostname, as its dot-separated labels.
Hostnames ==
  { <<"localhost">>, <<"demo", "netlify", "app">>,
    <<"demo", "staticblitz", "com">>, <<"example", "com">> }

\* String.prototype.includes, on label sequences.
Includes(h, pat) ==
  \E i \in 1..(Len(h) - Len(pat) + 1) : SubSeq(h, i, i + Len(pat) - 1) = pat

IsStaticHost(h) ==
  Includes(h, <<"netlify", "app">>) \/ Includes(h, <<"staticblitz", "com">>)

\* The ways an awaited fetch or body decode rejects.
Errors == {"timeout", "transport", "parse"}

VARIABLES
  hostname,         \* window.location.hostname
  mounted,          \* the mount effects have run
  message, loading, activeTab, userData, products,
  userLoading, productsLoading, isApiAvailable, isNetlify,
  calls,            \* bag of async invocations suspended at an await
  requests,         \* history: network requests issued, per resource
  delays,           \* history: simulated delays started, per resource
  origin,           \* history: where the stored value of a resource came from
  failed,           \* history: some load has taken the catch path
  uncaught,         \* history: an error left a load operation
  last              \* history: the step taken last

state == <<message, loading, activeTab, userData, products,
           userLoading, productsLoading, isApiAvailable, isNetlify>>
hist == <<requests, delays, origin, failed, uncaught, last>>
vars == <<hostname, mounted, state, calls, hist>>

Event(op, r, e) == [op |-> op, res |-> r, err |-> e]

Init ==
  /\ hostname \in Hostnames
  /\ mounted = FALSE
  /\ message = ""
  /\ loading = TRUE
  /\ activeTab = "welcome"
  /\ userData = Null
  /\ products = <<>>
  /\ userLoading = FALSE
  /\ productsLoading = FALSE
  /\ isApiAvailable = TRUE
  /\ isNetlify = FALSE
  /\ calls = EmptyBag
  /\ requests = [r \in Resources |-> 0]
  /\ delays = [r \in Resources |-> 0]
  /\ origin = [r \in Resources |-> "none"]
  /\ failed = FALSE
  /\ uncaught = FALSE
  /\ last = Event("init", "-", "-")

\* Loads of r started so far.
Started(r) == requests[r] + delays[r]

\* A suspended invocation: the resource it loads, the await it is at, and the
\* milliseconds since it armed its timer.  Spec abstracts from time: there t
\* stays 0 and a timer may fire at any step; TimedSpec and ExactSpec advance t.
Call(r, pc) == [res |-> r, pc |-> pc, t |-> 0]

InFlight(r) == {c \in BagToSet(calls) : c.res = r}

\* The loading flag of a resource.
LoadingFlag(r) ==
  CASE r = "greeting" -> loading
    [] r = "profile"  -> userLoading
    [] r = "catalog"  -> productsLoading

\* The stored value of a resource.
Value(r) ==
  CASE r = "greeting" -> message
    [] r = "profile"  -> userData
    [] r = "catalog"  -> products

Fallback(r) ==
  CASE r = "greeting" -> FALLBACK_DATA.message
    [] r = "profile"  -> FALLBACK_DATA.user
    [] r = "catalog"  -> FALLBACK_DATA.products

\* setMessage / setUserData / setProducts
SetValue(r, v) ==
  /\ message'  = IF r = "greeting" THEN v ELSE message
  /\ userData' = IF r = "profile" THEN v ELSE userData
  /\ products' = IF r = "catalog" THEN v ELSE products

\* setLoading / setUserLoading / setProductsLoading
SetLoading(r, b) ==
  /\ loading'         = IF r = "greeting" THEN b ELSE loading
  /\ userLoading'     = IF r = "profile" THEN b ELSE userLoading
  /\ productsLoading' = IF r = "catalog" THEN b ELSE productsLoading


\* Variant: the guard looks at the loading flag instead of the data.
HaveData_ByLoadingFlag(r) ==
  CASE r = "profile" -> userLoading
    [] r = "catalog" -> productsLoading

\* if (userData) return;  /  if (products.length > 0) return;
HaveData(r) ==
  CASE r = "profile" -> userData # Null
    [] r = "catalog" -> Len(products) > 0

\* Variant: the 'user' branch also calls fetchProducts().
EffectTargets_Both(t) ==
  CASE t = "user"     -> {"profile", "catalog"}
    [] t = "products" -> {"catalog"}
    [] OTHER          -> {}

\* The loads the activeTab effect calls for a tab.
EffectTargets(t) ==
  CASE t = "user"     -> {"profile"}
    [] t = "products" -> {"catalog"}
    [] OTHER          -> {}

\* What a load stores when its request succeeded with the decoded body data.
OnSuccessValue(r, data) == IF r = "greeting" THEN data.message ELSE data

\* Variant: every success handler writes the flag, as fetchData does.
OnSuccessAvailable_Always(r) == TRUE

\* The availability flag after a load succeeded: only fetchData writes it.
OnSuccessAvailable(r) == IF r = "greeting" THEN TRUE ELSE isApiAvailable

\* catch (error) binds whatever was thrown.
Catches(e) == TRUE

\* Variant: the catch block stores nothing.
OnCatchValue_Nothing(r, e) == Value(r)

\* Variant: the catch block stores only the items in stock.
OnCatchValue_InStock(r, e) ==
  IF r = "catalog"
    THEN SelectSeq(FALLBACK_DATA.products, LAMBDA p : p.inStock)
    ELSE Fallback(r)

\* The catch blocks: the value stored and the availability flag written.
OnCatchValue(r, e) == Fallback(r)

\* Variant: an aborted request is not taken as a failure of the provider.
OnCatchAvailable_NotOnAbort(r, e) ==
  IF e = "timeout" THEN isApiAvailable ELSE FALSE

OnCatchAvailable(r, e) == FALSE

\* Variant: the static branch leaves the availability flag alone.
MountStatic_NoFlag ==
  /\ ~mounted
  /\ IsStaticHost(hostname)
  /\ mounted' = TRUE
  /\ isNetlify' = TRUE
  /\ UNCHANGED isApiAvailable
  /\ SetValue("greeting", FALLBACK_DATA.message)
  /\ SetLoading("greeting", FALSE)
  /\ origin' = [origin EXCEPT !["greeting"] = "fallback"]
  /\ last' = Event("static", "greeting", "-")
  /\ UNCHANGED <<hostname, activeTab, calls, requests, delays, failed, uncaught>>

\* Mount effect on a static host: no probe.
MountStatic ==
  /\ ~mounted
  /\ IsStaticHost(hostname)
  /\ mounted' = TRUE
  /\ isNetlify' = TRUE
  /\ isApiAvailable' = FALSE
  /\ SetValue("greeting", FALLBACK_DATA.message)
  /\ SetLoading("greeting", FALSE)
  /\ origin' = [origin EXCEPT !["greeting"] = "fallback"]
  /\ last' = Event("static", "greeting", "-")
  /\ UNCHANGED <<hostname, activeTab, calls, requests, delays, failed, uncaught>>

\* Mount effect elsewhere: fetchData() runs up to its first await.  The
\* activeTab effect also runs at mount and does nothing on 'welcome'.
MountProbe ==
  /\ ~mounted
  /\ ~IsStaticHost(hostname)
  /\ mounted' = TRUE
  /\ calls' = calls (+) SetToBag({Call("greeting", "fetch")})
  /\ requests' = [requests EXCEPT !["greeting"] = @ + 1]
  /\ last' = Event("start", "greeting", "-")
  /\ UNCHANGED <<hostname, state, delays, origin, failed, uncaught>>

\* A click on a tab other than the active one, the render, and the activeTab
\* effect: fetchUserData() / fetchProducts() run up to their first await.
ClickTab(t) ==
  /\ mounted
  /\ t # activeTab
  /\ activeTab' = t
  /\ LET starting == {r \in EffectTargets(t) : ~HaveData(r)}
         path == IF isApiAvailable THEN "fetch" ELSE "delay"
     IN  /\ \A r \in starting : Started(r) < MaxLoads
         /\ calls' = calls (+) SetToBag({Call(r, path) : r \in starting})
         /\ userLoading' = (("profile" \in starting) \/ userLoading)
         /\ productsLoading' = (("catalog" \in starting) \/ productsLoading)
         /\ requests' = [r \in Resources |->
              IF r \in starting /\ path = "fetch"
                THEN requests[r] + 1 ELSE requests[r]]
         /\ delays' = [r \in Resources |->
              IF r \in starting /\ path = "delay"
                THEN delays[r] + 1 ELSE delays[r]]
         /\ last' = Event(IF starting # {} THEN "start"
                          ELSE IF EffectTargets(t) # {} THEN "skip"
                          ELSE "noload", t, "-")
  /\ UNCHANGED <<hostname, mounted, message, loading, userData, products,
                 isApiAvailable, isNetlify, origin, failed, uncaught>>

\* try-block tail after a decoded body, then finally.
Succeed(c, data) ==
  /\ calls' = calls (-) SetToBag({c})
  /\ SetValue(c.res, OnSuccessValue(c.res, data))
  /\ isApiAvailable' = OnSuccessAvailable(c.res)
  /\ SetLoading(c.res, FALSE)
  /\ origin' = [origin EXCEPT ![c.res] = "provider"]
  /\ last' = Event("success", c.res, "-")
  /\ UNCHANGED <<hostname, mounted, activeTab, isNetlify, requests, delays,
                 failed, uncaught>>

\* catch block for a rejected await, then finally.
Catch(c, e) ==
  /\ calls' = calls (-) SetToBag({c})
  /\ IF Catches(e)
       THEN /\ SetValue(c.res, OnCatchValue(c.res, e))
            /\ isApiAvailable' = OnCatchAvailable(c.res, e)
            /\ origin' = [origin EXCEPT ![c.res] = "fallback"]
            /\ UNCHANGED uncaught
       ELSE /\ UNCHANGED <<message, userData, products, isApiAvailable, origin>>
            /\ uncaught' = TRUE
  /\ SetLoading(c.res, FALSE)
  /\ failed' = TRUE
  /\ last' = Event("fail", c.res, e)
  /\ UNCHANGED <<hostname, mounted, activeTab, isNetlify, requests, delays>>

\* fetchWithTimeout: fetch() resolved with a response; the abort timer is
\* cleared and the caller goes on to await response.json().
FetchResolves(c) ==
  /\ c.pc = "fetch"
  /\ calls' = (calls (-) SetToBag({c})) (+) SetToBag({[c EXCEPT !.pc = "json"]})
  /\ last' = Event("response", c.res, "-")
  /\ UNCHANGED <<hostname, mounted, state, requests, delays, origin, failed,
                 uncaught>>

\* fetchWithTimeout: fetch() rejected (provider unreachable); rethrown.
FetchRejects(c) ==
  /\ c.pc = "fetch"
  /\ Catch(c, "transport")

\* fetchWithTimeout: the timer fired first; abort() rejects the fetch.
AbortFires(c) ==
  /\ c.pc = "fetch"
  /\ Catch(c, "timeout")

\* response.json() resolved with the body the provider sent.
JsonResolves(c) ==
  /\ c.pc = "json"
  /\ Succeed(c, ProviderBody(Endpoint(c.res)))

\* response.json() rejected: the body is not JSON, or the connection broke.
JsonRejects(c, e) ==
  /\ c.pc = "json"
  /\ e \in {"parse", "transport"}
  /\ Catch(c, e)

\* The simulated delay of the fallback branch elapsed.
DelayFires(c) ==
  /\ c.pc = "delay"
  /\ calls' = calls (-) SetToBag({c})
  /\ SetValue(c.res, Fallback(c.res))
  /\ SetLoading(c.res, FALSE)
  /\ origin' = [origin EXCEPT ![c.res] = "fallback"]
  /\ last' = Event("fallback", c.res, "-")
  /\ UNCHANGED <<hostname, mounted, activeTab, isApiAvailable, isNetlify,
                 requests, delays, failed, uncaught>>

Next ==
  \/ MountStatic
  \/ MountProbe
  \/ \E t \in Tabs : ClickTab(t)
  \/ \E c \in BagToSet(calls) : FetchResolves(c)
  \/ \E c \in BagToSet(calls) : FetchRejects(c)
  \/ \E c \in BagToSet(calls) : AbortFires(c)
  \/ \E c \in BagToSet(calls) : JsonResolves(c)
  \/ \E c \in BagToSet(calls), e \in Errors : JsonRejects(c, e)
  \/ \E c \in BagToSet(calls) : DelayFires(c)

Spec == Init /\ [][Next]_vars

\* Every kind of suspended invocation.
AllCalls ==
  [res : Resources, pc : {"fetch", "json", "delay"}, t : {0, 1000, 2000, 3000, 4000}]

\* Timers fire and queued continuations run; the provider and the network
\* owe nothing.
Fairness ==
  /\ WF_vars(MountStatic)
  /\ WF_vars(MountProbe)
  /\ \A c \in {a \in AllCalls : a.t = 0} :
       /\ WF_vars(BagIn(c, calls) /\ AbortFires(c))
       /\ WF_vars(BagIn(c, calls) /\ DelayFires(c))

LiveSpec == Spec /\ Fairness

\* fetchWithTimeout(url, {}, 3000)
TimeoutMs == 3000

\* setTimeout(resolve, 1000) of the fallback branches
DelayMs == 1000

\* simulateDelay(ms) of the three routes
ServerDelay(url) ==
  CASE url = "/api/hello"    -> 1000
    [] url = "/api/user"     -> 2000
    [] url = "/api/products" -> 3000

\* Elapsed times are counted up to one step past the timeout.
Horizon == TimeoutMs + 1000

\* Variant: the simulated delay is as long as the request timeout.
TimerDue_OneDelay(c) ==
  c.pc \in {"fetch", "delay"} /\ c.t >= TimeoutMs

\* The timer a call waits on has run out: the abort timer of a pending
\* fetch(), or the simulated delay.  Nothing times the body decode: the
\* abort timer is cleared once fetch() has resolved.
TimerDue(c) ==
  \/ c.pc = "fetch" /\ c.t >= TimeoutMs
  \/ c.pc = "delay" /\ c.t >= DelayMs

\* The calls after 1000 ms more.
Elapse(b) ==
  LET later(c) == [c EXCEPT !.t = IF @ + 1000 > Horizon THEN Horizon ELSE @ + 1000]
      copies(d) ==
        (IF d.t >= 1000 THEN CopiesIn([d EXCEPT !.t = @ - 1000], b) ELSE 0)
        + (IF d.t = Horizon THEN CopiesIn(d, b) ELSE 0)
  IN  [d \in {later(c) : c \in BagToSet(b)} |-> copies(d)]

\* 1000 ms pass; a timer that is due fires before more time passes.
Tick ==
  /\ calls # EmptyBag
  /\ \A c \in BagToSet(calls) : ~TimerDue(c)
  /\ calls' = Elapse(calls)
  /\ last' = Event("tick", "-", "-")
  /\ UNCHANGED <<hostname, mounted, state, requests, delays, origin, failed,
                 uncaught>>

\* A click, while fewer than MaxTimedLoads loads of the tab's resource have
\* been started.
TimedClick(t) ==
  /\ \A r \in EffectTargets(t) : ~HaveData(r) => Started(r) < MaxTimedLoads
  /\ ClickTab(t)

\* The abort timer fires when the timeout has elapsed.
TimedAbort(c) ==
  /\ TimerDue(c)
  /\ AbortFires(c)

\* The simulated delay ends when it has elapsed.
TimedDelay(c) ==
  /\ TimerDue(c)
  /\ DelayFires(c)

\* Timed behaviour against any provider: it may answer or fail at any time
\* up to the timeout, and send or break the body at any time after.
TimedNext ==
  \/ MountStatic
  \/ MountProbe
  \/ \E t \in Tabs : TimedClick(t)
  \/ Tick
  \/ \E c \in BagToSet(calls) : FetchResolves(c)
  \/ \E c \in BagToSet(calls) : FetchRejects(c)
  \/ \E c \in BagToSet(calls) : TimedAbort(c)
  \/ \E c \in BagToSet(calls) : JsonResolves(c)
  \/ \E c \in BagToSet(calls), e \in Errors : JsonRejects(c, e)
  \/ \E c \in BagToSet(calls) : TimedDelay(c)

TimedSpec == Init /\ [][TimedNext]_vars

\* A response is due: the route's simulated delay has elapsed.
ResponseDue(c) ==
  c.pc = "fetch" /\ c.t >= ServerDelay(Endpoint(c.res))

\* The provider answers after its route's delay; res.json(...) sends the
\* headers and the whole body together.
ExactResponse(c) ==
  /\ ResponseDue(c)
  /\ FetchResolves(c)

\* 1000 ms pass, once every response and body that is due has been handled.
ExactTick ==
  /\ \A c \in BagToSet(calls) : ~ResponseDue(c) /\ c.pc # "json"
  /\ Tick

\* Timed behaviour against the provider of server/index.js, reachable and
\* answering every request after exactly its route's delay.  When a response
\* and the abort timer are due together, either may be handled first.
ExactNext ==
  \/ MountProbe
  \/ \E t \in Tabs : TimedClick(t)
  \/ ExactTick
  \/ \E c \in BagToSet(calls) : ExactResponse(c)
  \/ \E c \in BagToSet(calls) : TimedAbort(c)
  \/ \E c \in BagToSet(calls) : JsonResolves(c)
  \/ \E c \in BagToSet(calls) : TimedDelay(c)

\* The session runs where the provider is: not on a static host.
ExactInit == Init /\ ~IsStaticHost(hostname)

ExactSpec == ExactInit /\ [][ExactNext]_vars

TypeOK ==
  /\ hostname \in Hostnames
  /\ mounted \in BOOLEAN
  /\ activeTab \in Tabs
  /\ loading \in BOOLEAN /\ userLoading \in BOOLEAN /\ productsLoading \in BOOLEAN
  /\ isApiAvailable \in BOOLEAN /\ isNetlify \in BOOLEAN
  /\ message \in {"", FALLBACK_DATA.message, ApiHello.message}
  /\ userData \in {Null, FALLBACK_DATA.user, ApiUser}
  /\ products \in {<<>>, FALLBACK_DATA.products, ApiProducts}
  /\ IsABag(calls) /\ BagToSet(calls) \subseteq AllCalls
  /\ \A r \in Resources : Started(r) <= MaxLoads


(***************************************************************************)
(* Properties                                                              *)
(***************************************************************************)

\* C1: for each resource at most one load (network request or simulated
\* delay) is ever started in a session, re-activations of a tab included.
C1_AtMostOneLoad == \A r \in Resources : Started(r) <= 1

\* C3: the availability flag is sticky: once false, no step writes it back
\* to true.
C3_FlagSticky == [][isApiAvailable = FALSE => isApiAvailable' = FALSE]_vars

\* C4: a failed load leaves the availability flag false, and no load started
\* after a failure issues a network request.
C4_FallbackAfterFailure ==
  [][ /\ (last'.op = "fail" /\ calls' # calls) => isApiAvailable' = FALSE
      /\ failed => requests' = requests ]_vars

\* C5: once a resource holds a provider value or a fallback value, its value
\* and its state (Loaded / FallenBack) never change again.
C5_TerminalStates ==
  [][ \A r \in Resources :
        origin[r] # "none" => /\ Value(r)' = Value(r)
                              /\ origin'[r] = origin[r] ]_vars

\* C9: every loading flag that is set is eventually cleared, whatever the
\* provider does, when timers fire and continuations run.
C9_LoadingCleared ==
  \A r \in Resources : LoadingFlag(r) ~> ~LoadingFlag(r)


\* C2: once a resource holds a value, activating its tab again changes
\* nothing but the active tab: no request, no delay, no loading flag, no
\* write to the cached value or to the availability flag.
C2_CachedActivationNoEffect ==
  [][ \A t \in Tabs :
        ( /\ activeTab # t /\ activeTab' = t
          /\ \A r \in EffectTargets(t) : origin[r] # "none" )
        => UNCHANGED <<calls, requests, delays, message, loading, userData,
                       products, userLoading, productsLoading, isApiAvailable,
                       origin>> ]_vars

C2_Witness ==
  /\ last = Event("skip", "user", "-")
  /\ origin["profile"] = "provider"
  /\ activeTab = "user"

\* The resources with a load in flight.
Loading == {r \in Resources : InFlight(r) # {}}

\* C6 as stated: at most one resource has a load in flight.
C6_OneResourceLoading == Cardinality(Loading) <= 1

\* C6 amended: no step starts loads of two resources or two loads of one;
\* loads of different resources may be in flight together.
C6_OneStartPerStep ==
  [][ /\ Cardinality({r \in Resources : Started(r)' # Started(r)}) <= 1
      /\ \A r \in Resources : Started(r)' <= Started(r) + 1 ]_vars

C6_Witness ==
  /\ InFlight("greeting") # {}
  /\ InFlight("profile") # {}
  /\ InFlight("catalog") # {}

\* C7: a load that fails, by timeout or by transport or parse failure, stores
\* the fallback value, sets the availability flag to false, clears the
\* loading flag, lets no error out and touches nothing else, so that the
\* state after it does not depend on the kind of failure.
C7_FailureOutcome ==
  [][ \A r \in Resources :
        (last'.op = "fail" /\ last'.res = r /\ calls' # calls)
        => /\ Value(r)' = Fallback(r)
           /\ isApiAvailable' = FALSE
           /\ LoadingFlag(r)' = FALSE
           /\ uncaught' = FALSE
           /\ \A q \in Resources \ {r} :
                Value(q)' = Value(q) /\ LoadingFlag(q)' = LoadingFlag(q)
           /\ UNCHANGED <<activeTab, isNetlify, requests, delays>> ]_vars

C7_Witness ==
  /\ last = Event("fail", "profile", "timeout")
  /\ userData = FALLBACK_DATA.user
  /\ ~isApiAvailable
  /\ ~userLoading

\* C8: on a static host, from the mount step on, no network request has been
\* issued for any resource, the availability flag is false, and the greeting
\* is the fallback message with its loading flag cleared, without a delay.
C8_StaticHostNoNetwork ==
  (mounted /\ IsStaticHost(hostname))
  => /\ \A r \in Resources : requests[r] = 0
     /\ ~isApiAvailable
     /\ message = FALLBACK_DATA.message
     /\ ~loading
     /\ delays["greeting"] = 0
     /\ isNetlify

C8_Witness ==
  /\ IsStaticHost(hostname)
  /\ origin["profile"] = "fallback"
  /\ origin["catalog"] = "fallback"
  /\ calls = EmptyBag

\* The value a resource holds when it holds what the provider sent.
Returned(r) ==
  IF r = "greeting" THEN ProviderBody(Endpoint(r)).message
                    ELSE ProviderBody(Endpoint(r))

\* C10 as stated: after a successful load the stored value is the provider's
\* and the availability flag is true.
C10_SuccessKeepsAvailable ==
  [][ \A r \in Resources :
        (last'.op = "success" /\ last'.res = r /\ calls' # calls)
        => /\ Value(r)' = Returned(r)
           /\ isApiAvailable' = TRUE ]_vars

\* C10 amended: after a successful load the stored value is the provider's;
\* the greeting probe leaves the availability flag true, a profile or catalog
\* load leaves it as it was.
C10_SuccessStoresReturned ==
  [][ \A r \in Resources :
        (last'.op = "success" /\ last'.res = r /\ calls' # calls)
        => /\ Value(r)' = Returned(r)
           /\ r = "greeting" =>
                message' = "Hello from Express server!" /\ isApiAvailable' = TRUE
           /\ r # "greeting" => isApiAvailable' = isApiAvailable ]_vars

C10_Witness ==
  /\ last = Event("success", "profile", "-")
  /\ userData = ApiUser
  /\ ~isApiAvailable


\* What the render tests before showing a resource: message, userData ?,
\* products.length > 0.
HasValue(r) ==
  CASE r = "greeting" -> message # ""
    [] r = "profile"  -> userData # Null
    [] r = "catalog"  -> Len(products) > 0

\* A load of r was started and the loading flag of r is clear again.
LoadCompleted(r) ==
  /\ ~LoadingFlag(r)
  /\ r # "greeting" => Started(r) > 0

\* C11: whenever a load of a resource has completed (its loading flag was set
\* and is clear again), the resource holds a value, so the render never
\* reaches the 'Failed to load' branch after a completed load.
C11_CompletedLoadHasValue ==
  \A r \in Resources : LoadCompleted(r) => HasValue(r)

C11_Witness ==
  /\ last.op = "fail"
  /\ \A r \in Resources : LoadCompleted(r) /\ origin[r] = "fallback"
  /\ ~IsStaticHost(hostname)

\* C12: the fallback catalog has exactly six items with ids 1..6 in order,
\* item 3 is the "Smart Watch" and the only one out of stock, and a catalog
\* load that fell back has stored exactly this list.
C12_FallbackCatalogExact ==
  /\ Len(FALLBACK_DATA.products) = 6
  /\ \A i \in 1..6 : /\ FALLBACK_DATA.products[i].id = i
                     /\ FALLBACK_DATA.products[i].inStock = (i # 3)
  /\ FALLBACK_DATA.products[3].name = "Smart Watch"
  /\ origin["catalog"] = "fallback" =>
       /\ products = FALLBACK_DATA.products
       /\ Len(products) = 6
       /\ \A i \in 1..6 : products[i].id = i /\ products[i].inStock = (i # 3)

C12_Witness ==
  /\ last = Event("fail", "catalog", "timeout")
  /\ origin["catalog"] = "fallback"
  /\ products[3].name = "Smart Watch"

\* C15: from the mount step on, the loading flag of each resource is true
\* exactly when a load of that resource is in flight.
C15_LoadingFlagAccurate ==
  mounted => \A r \in Resources : LoadingFlag(r) <=> (InFlight(r) # {})


\* C13: a load that has issued a request is never still pending more than
\* 3000 ms after issuing it, be it waiting for the response or for the body.
C13_RequestBounded ==
  \A c \in BagToSet(calls) : c.pc \in {"fetch", "json"} => c.t <= TimeoutMs

\* C14: a profile or catalog load that starts while the availability flag is
\* false sets the loading flag and starts the simulated delay, and after
\* exactly 1000 ms assigns the fallback value and clears the loading flag;
\* neither step issues a request, writes the availability flag or touches
\* another resource.
C14_FallbackPathSteps ==
  [][ \A r \in {"profile", "catalog"} :
        /\ (Started(r)' > Started(r) /\ ~isApiAvailable)
           => /\ LoadingFlag(r)'
              /\ delays'[r] = delays[r] + 1
              /\ calls' = calls (+) SetToBag({[res |-> r, pc |-> "delay", t |-> 0]})
              /\ UNCHANGED <<requests, isApiAvailable, message, userData,
                             products, loading>>
        /\ (last'.op = "fallback" /\ last'.res = r /\ calls' # calls)
           => /\ calls' = calls (-) SetToBag({[res |-> r, pc |-> "delay", t |-> DelayMs]})
              /\ BagIn([res |-> r, pc |-> "delay", t |-> DelayMs], calls)
              /\ Value(r)' = Fallback(r)
              /\ ~LoadingFlag(r)'
              /\ \A q \in Resources \ {r} :
                   Value(q)' = Value(q) /\ LoadingFlag(q)' = LoadingFlag(q)
              /\ UNCHANGED <<requests, delays, isApiAvailable>>
        /\ (CopiesIn([res |-> r, pc |-> "delay", t |-> DelayMs], calls')
              < CopiesIn([res |-> r, pc |-> "delay", t |-> DelayMs], calls))
           => last'.op = "fallback" /\ last'.res = r ]_vars

C14_Witness ==
  /\ last = Event("fallback", "catalog", "-")
  /\ products = FALLBACK_DATA.products
  /\ requests["catalog"] = 0
  /\ delays["catalog"] = 1
  /\ ~productsLoading
  /\ ~IsStaticHost(hostname)

\* C16: against the provider answering after exactly its delays, no request
\* times out: nothing falls back and the availability flag stays true.
C16_AllFromProvider ==
  /\ isApiAvailable
  /\ ~failed
  /\ \A r \in Resources : origin[r] # "fallback"

====
